---- MODULE Spec2Model ----
(***************************************************************************)
(* rapidid: time ordered identifiers with an optional 3-letter prefix.     *)
(*                                                                         *)
(* Go strings and byte slices are modelled as sequences of byte values     *)
(* (0..255); a character is its ASCII code ('-' is 45, ' ' is 32).  A nil  *)
(* ID is the empty sequence.  A uint64 is its 8 bytes, most significant    *)
(* first, so that a shift by 8 bits is a shift by one byte.                *)
(***************************************************************************)
EXTENDS Integers, Sequences, FiniteSets, TLC

(* ------------------------------------------------------------------ *)
(* Program constants                                                   *)
(* ------------------------------------------------------------------ *)
prefixAllowedLen == 3
timeBytesLen == 7
randomBytesLen == 12
byteLength == timeBytesLen + randomBytesLen
stringEncodedLen == 25
stringEncodedLenWithPrefix == 3 + 1 + stringEncodedLen

\* separator = "-"
separator == 45
separatorBytes == <<separator>>

\* "123456789ABCDEFGHJKLMNPQRSTUVWXYZabcdefghijkmnopqrstuvwxyz"
alphabets ==
    <<49, 50, 51, 52, 53, 54, 55, 56, 57,
      65, 66, 67, 68, 69, 70, 71, 72,
      74, 75, 76, 77, 78,
      80, 81, 82, 83, 84, 85, 86, 87, 88, 89, 90,
      97, 98, 99, 100, 101, 102, 103, 104, 105, 106, 107,
      109, 110, 111, 112, 113, 114, 115, 116, 117, 118, 119, 120, 121, 122>>

\* error values
NoErr == "nil"
errBytesSizeMismatch == "errBytesSizeMismatch"
errStringSizeMismatch == "errStringSizeMismatch"
errPrefixSeparator == "prefix must not contain '-'"
errPrefixWhitespace == "prefix must not contain whitespace"
errPrefixLength == "prefix must be 3 characters"
errInvalidBase58 == "invalid ID: must be a valid base58 text"
errScanType == "unable to scan type into ID"
PanicNoSeparator == "panic: expecting the separator"

NilID == <<>>

(* ------------------------------------------------------------------ *)
(* strings / bytes helpers (Go standard library)                       *)
(* ------------------------------------------------------------------ *)
Fill(n, b) == [i \in 1..n |-> b]

\* strings.Index / bytes.Index for a one-byte separator: 0-based, -1 if absent
Index(s, c) ==
    IF \E i \in 1..Len(s) : s[i] = c
    THEN (CHOOSE i \in 1..Len(s) : s[i] = c /\ \A j \in 1..(i - 1) : s[j] # c) - 1
    ELSE -1

Contains(s, c) == \E i \in 1..Len(s) : s[i] = c

TrimSuffix(s, c) ==
    IF Len(s) > 0 /\ s[Len(s)] = c THEN SubSeq(s, 1, Len(s) - 1) ELSE s

\* Go's < on strings, bytes.Compare(a, b) < 0 on slices: byte-wise lexicographic
BytesLess(a, b) ==
    \E k \in 1..(Len(b)) :
        /\ k <= Len(a) + 1
        /\ \A i \in 1..(k - 1) : a[i] = b[i]
        /\ (k = Len(a) + 1 \/ a[k] < b[k])

(* ------------------------------------------------------------------ *)
(* github.com/mr-tron/base58 (EncodeAlphabet / DecodeAlphabet)         *)
(* ------------------------------------------------------------------ *)
RECURSIVE CountLeading(_, _, _)
CountLeading(s, c, i) ==
    IF i <= Len(s) /\ s[i] = c THEN CountLeading(s, c, i + 1) ELSE i - 1

StripZeros(b) == SubSeq(b, CountLeading(b, 0, 1) + 1, Len(b))

\* one long division of a big-endian number by 58
RECURSIVE DivStep(_, _, _, _)
DivStep(b, i, rem, q) ==
    IF i > Len(b) THEN [q |-> q, r |-> rem]
    ELSE LET cur == rem * 256 + b[i]
         IN DivStep(b, i + 1, cur % 58, Append(q, cur \div 58))

RECURSIVE EncDigits(_, _)
EncDigits(b, acc) ==
    IF b = <<>> THEN acc
    ELSE LET d == DivStep(b, 1, 0, <<>>)
         IN EncDigits(StripZeros(d.q), <<alphabets[d.r + 1]>> \o acc)

\* zcount leading zero bytes become zcount copies of the first symbol; the rest
\* is the number written in base 58 with no leading zero digit (no padding)
EncodeAlphabet(bin) ==
    LET zcount == CountLeading(bin, 0, 1)
    IN Fill(zcount, alphabets[1]) \o EncDigits(StripZeros(bin), <<>>)

InAlphabet(ch) == \E i \in 1..Len(alphabets) : alphabets[i] = ch
DigitOf(ch) == (CHOOSE i \in 1..Len(alphabets) : alphabets[i] = ch) - 1

\* binu := binu * 58 + c over a fixed width big-endian buffer
RECURSIVE MulAdd(_, _, _)
MulAdd(binu, j, c) ==
    IF j = 0 THEN binu
    ELSE LET t == binu[j] * 58 + c
         IN MulAdd([binu EXCEPT ![j] = t % 256], j - 1, t \div 256)

RECURSIVE DecAccum(_, _, _)
DecAccum(str, i, binu) ==
    IF i > Len(str) \/ Len(binu) = 0 THEN binu
    ELSE DecAccum(str, i + 1, MulAdd(binu, Len(binu), DigitOf(str[i])))

\* returns [bs, err]; the decoded buffer has b58sz bytes, of which the leading
\* zero bytes beyond zcount are cut
DecodeAlphabet(str) ==
    IF Len(str) = 0 THEN [bs |-> <<>>, err |-> "zero length string"]
    ELSE IF \E i \in 1..Len(str) : ~InAlphabet(str[i])
    THEN [bs |-> <<>>, err |-> "invalid base58 digit"]
    ELSE LET zcount == CountLeading(str, alphabets[1], 1)
             binu == DecAccum(str, 1, Fill(Len(str), 0))
             lead == CountLeading(binu, 0, 1)
         IN IF lead = Len(binu) THEN [bs |-> binu, err |-> NoErr]
            ELSE [bs |-> SubSeq(binu, lead - zcount + 1, Len(binu)), err |-> NoErr]

(* ------------------------------------------------------------------ *)
(* rapidid                                                             *)
(* ------------------------------------------------------------------ *)

\* the only whitespace the code looks for is the space character
validatePrefix(str, separatorAsInvalid) ==
    LET s == IF ~separatorAsInvalid THEN TrimSuffix(str, separator) ELSE str
    IN IF Contains(s, separator) THEN errPrefixSeparator
       ELSE IF Contains(s, 32) THEN errPrefixWhitespace
       ELSE IF Len(s) > 0 /\ Len(s) # prefixAllowedLen THEN errPrefixLength
       ELSE NoErr

\* ts is uint64(time.Since(epochTime) / 100) as 8 bytes, most significant first
\* (ts << 8) & 0xFFFFFFFFFFFFFF00: the top byte is shifted out
ShiftLeft8(ts) == SubSeq(ts, 2, 8) \o <<0>>

\* byte(v >> k) of a uint64 v, k a multiple of 8
ByteShr(v, k) == v[8 - (k \div 8)]

\* newID as it would be without the shift: the top 7 bytes of the tick count
newIDUnshifted(prefix, now, rnd) ==
    IF validatePrefix(prefix, TRUE) # NoErr
    THEN [id |-> NilID, err |-> validatePrefix(prefix, TRUE)]
    ELSE LET pfx == IF Len(prefix) > 0 THEN prefix \o <<separator>> ELSE prefix
         IN [id |-> pfx \o SubSeq(now, 1, timeBytesLen) \o SubSeq(rnd, 1, randomBytesLen),
             err |-> NoErr]

newID(prefix, now, rnd) ==
    IF validatePrefix(prefix, TRUE) # NoErr
    THEN [id |-> NilID, err |-> validatePrefix(prefix, TRUE)]
    ELSE LET pfx == IF Len(prefix) > 0 THEN prefix \o <<separator>> ELSE prefix
             prefixLen == IF Len(prefix) > 0 THEN prefixAllowedLen + 1 ELSE 0
             ts == ShiftLeft8(now)
         IN [id |-> SubSeq(pfx, 1, prefixLen)
                    \o <<ByteShr(ts, 56), ByteShr(ts, 48), ByteShr(ts, 40),
                         ByteShr(ts, 32), ByteShr(ts, 24), ByteShr(ts, 16),
                         ByteShr(ts, 8)>>
                    \o SubSeq(rnd, 1, randomBytesLen),
             err |-> NoErr]

New(prefix, now, rnd) == newID(prefix, now, rnd)

\* [text, panic]
String(t) ==
    IF Len(t) > byteLength
    THEN LET separatorIndex == Index(t, separator)
         IN IF separatorIndex = -1
            THEN [text |-> <<>>, panic |-> TRUE]
            ELSE [text |-> SubSeq(t, 1, separatorIndex + 1)
                           \o EncodeAlphabet(SubSeq(t, separatorIndex + 2, Len(t))),
                  panic |-> FALSE]
    ELSE [text |-> EncodeAlphabet(t), panic |-> FALSE]

Value(t) == [v |-> t, err |-> NoErr]

\* FromBytes as it would be if it kept the payload length only
FromBytesTruncating(bytes) ==
    IF Len(bytes) < byteLength
    THEN [id |-> NilID, err |-> errBytesSizeMismatch]
    ELSE [id |-> SubSeq(bytes, 1, byteLength), err |-> NoErr]

FromBytes(bytes) ==
    IF Len(bytes) < byteLength
    THEN [id |-> NilID, err |-> errBytesSizeMismatch]
    ELSE [id |-> bytes, err |-> NoErr]

parseInternal(prefix, text) ==
    IF Len(text) < stringEncodedLen
    THEN [id |-> NilID, err |-> errStringSizeMismatch]
    ELSE IF validatePrefix(prefix, FALSE) # NoErr
    THEN [id |-> NilID, err |-> validatePrefix(prefix, FALSE)]
    ELSE LET d == DecodeAlphabet(text)
         IN IF d.err # NoErr
            THEN [id |-> NilID, err |-> errInvalidBase58]
            ELSE FromBytes(prefix \o d.bs)

Parse(text) ==
    LET prefixIndex == Index(text, separator)
    IN IF prefixIndex # -1
       THEN parseInternal(SubSeq(text, 1, prefixIndex + 1),
                          SubSeq(text, prefixIndex + 2, Len(text)))
       ELSE IF Len(text) >= stringEncodedLen
       THEN parseInternal(<<>>, text)
       ELSE [id |-> NilID, err |-> errStringSizeMismatch]

\* the methods on *ID return the receiver as the call leaves it, and the error
UnmarshalText(t, b) ==
    LET r == Parse(b)
    IN IF r.err # NoErr THEN [id |-> t, err |-> r.err]
       ELSE [id |-> r.id, err |-> NoErr]

UnmarshalBinary(t, b) == FromBytes(b)

scan(t, b) ==
    IF Len(b) = 0 THEN [id |-> t, err |-> NoErr]
    ELSE IF Len(b) = byteLength \/ Len(b) = prefixAllowedLen + byteLength
    THEN UnmarshalBinary(t, b)
    ELSE IF Len(b) = stringEncodedLen \/ Len(b) = prefixAllowedLen + stringEncodedLen
    THEN UnmarshalText(t, b)
    ELSE [id |-> t, err |-> errBytesSizeMismatch]

Scan(t, kind, v) ==
    IF kind = "nil" THEN scan(t, <<>>)
    ELSE IF kind \in {"[]byte", "bytes.Buffer", "*bytes.Buffer", "string"}
    THEN scan(t, v)
    ELSE [id |-> t, err |-> errScanType]

\* [id, text, panic]: id is the identifier New built, which the caller never sees
GenerateWithPrefix(prefix, now, rnd) ==
    LET r == New(TrimSuffix(prefix, separator), now, rnd)
    IN IF r.err # NoErr THEN [id |-> NilID, text |-> <<>>, panic |-> TRUE]
       ELSE [id |-> r.id, text |-> String(r.id).text, panic |-> String(r.id).panic]

(* ------------------------------------------------------------------ *)
(* Inputs                                                              *)
(* ------------------------------------------------------------------ *)
MaxPrefixLen == 4
MaxLowByte == 1
MaxExtraBytes == 4
MaxExtraChars == 1
MaxIter == 2

\* prefixes: runs of 'a' in which at most one character is '-', ' ' or a tab
PrefixesOfLen(n) ==
    {Fill(n, 97)} \cup
    {[i \in 1..n |-> IF i = k THEN c ELSE 97] : k \in 1..n, c \in {45, 32, 9}}
Prefixes == UNION {PrefixesOfLen(n) : n \in 0..MaxPrefixLen}

\* clock readings: the 8 bytes of the tick count.  The first byte is what the
\* 56-bit field drops; the second is the most significant byte that is kept.
\* Tick counts below 2^56, and one beyond it.
TickVals ==
    {<<0, hi, 0, 0, 0, 0, 0, lo>> : hi \in {0, 5, 6}, lo \in 0..MaxLowByte}
    \cup {<<1, 5, 0, 0, 0, 0, 0, 0>>}

\* what crypto/rand may return
RndVals == {Fill(randomBytesLen, 0), Fill(randomBytesLen, 255)}

\* raw bytes handed to FromBytes, UnmarshalBinary and Scan
RawInputs ==
    {pre \o Fill(n, b) :
        pre \in {<<>>, <<97, 97, 97, 45>>},
        n \in {0} \cup ((byteLength - 2)..(byteLength + MaxExtraBytes)),
        b \in {0, 45, 255}}

\* texts handed to Parse, UnmarshalText and Scan: '1', '2', 'z' are symbols of
\* the alphabet, '0' is not
TextInputs ==
    {pre \o (IF n = 0 THEN <<>> ELSE <<c>> \o Fill(n - 1, f)) :
        pre \in {<<>>, <<97, 97, 97, 45>>, <<97, 32, 97, 45>>},
        n \in {0} \cup ((stringEncodedLen - 1)..(stringEncodedLen + MaxExtraChars)),
        c \in {49, 50, 122, 48},
        f \in {49, 122}}

\* one call of the package by an outside caller: the function, its argument,
\* Scan's dynamic type or validatePrefix's flag, and what the clock and the
\* entropy source hold when New reads them
Call(fn, a, k, now, rnd) == [fn |-> fn, a |-> a, k |-> k, now |-> now, rnd |-> rnd]
NoCall == Call("none", <<>>, "", <<>>, <<>>)

ScanKinds == {"nil", "[]byte", "bytes.Buffer", "*bytes.Buffer", "string", "int"}

\* what a caller passes to Scan, by dynamic type
ScanValues(k) ==
    IF k = "[]byte" THEN RawInputs
    ELSE IF k = "string" THEN TextInputs
    ELSE IF k \in {"bytes.Buffer", "*bytes.Buffer"} THEN {<<>>, Fill(byteLength, 255)}
    ELSE {<<>>}

\* the clock and the entropy source are read only once the prefix is valid
Calls ==
    {Call("validatePrefix", s, k, <<>>, <<>>) : s \in Prefixes, k \in {"true", "false"}}
    \cup {Call("New", p, "", <<>>, <<>>) : p \in {q \in Prefixes : validatePrefix(q, TRUE) # NoErr}}
    \cup {Call("New", p, "", now, rnd) :
            p \in {q \in Prefixes : validatePrefix(q, TRUE) = NoErr},
            now \in TickVals, rnd \in RndVals}
    \cup {Call("Parse", t, "", <<>>, <<>>) : t \in TextInputs}
    \cup {Call("UnmarshalText", t, "", <<>>, <<>>) : t \in TextInputs}
    \cup {Call("FromBytes", b, "", <<>>, <<>>) : b \in RawInputs}
    \cup {Call("UnmarshalBinary", b, "", <<>>, <<>>) : b \in RawInputs}
    \cup UNION {{Call("Scan", v, k, <<>>, <<>>) : v \in ScanValues(k)} : k \in ScanKinds}

(* ------------------------------------------------------------------ *)
(* State                                                               *)
(* ------------------------------------------------------------------ *)
VARIABLES
    inp,    \* the call the outside caller makes first
    op,     \* the last call made
    arg,    \* its argument
    kind,   \* validatePrefix's flag, or the dynamic type Scan was given
    ret,    \* the identifier the call returned (the receiver, for a method)
    err,    \* the error it returned, or the panic it raised
    out,    \* the text or the bytes it returned
    src,    \* the call of New that built ret, when ret or out derives from one
    pc,     \* exampleTwo: where the function is
    ids,    \* exampleTwo: the slice ids
    gen     \* exampleTwo: per element of ids, the clock reading and the raw bytes

vars == <<inp, op, arg, kind, ret, err, out, src, pc, ids, gen>>

NoSrc == [prefix |-> <<>>, ts |-> <<>>, rnd |-> <<>>, id |-> <<>>]

Idle ==
    /\ op = "none" /\ arg = <<>> /\ kind = "" /\ ret = NilID
    /\ err = NoErr /\ out = <<>> /\ src = NoSrc

Init ==
    /\ inp \in Calls
    /\ Idle
    /\ pc = "loop" /\ ids = <<>> /\ gen = <<>>

\* ret is an identifier a constructor handed out without error
Holding ==
    /\ err = NoErr
    /\ op \in {"New", "Parse", "FromBytes", "UnmarshalBinary", "UnmarshalText", "Scan"}

\* the last call returned a text (String) or a driver value (Value), which the
\* next call is given
Returned(from) == err = NoErr /\ op = from

\* the next call is the outside caller's (fn of inp), or is given what the last returned
Given(fn, from, v) ==
    \/ op = "none" /\ inp.fn = fn /\ v = inp.a
    \/ Returned(from) /\ v = out

(* ------------------------------------------------------------------ *)
(* Calls of the package                                                *)
(* ------------------------------------------------------------------ *)
Result(fn, a, k, id, e, o, s) ==
    /\ op' = fn /\ arg' = a /\ kind' = k
    /\ ret' = id /\ err' = e /\ out' = o /\ src' = s
    /\ UNCHANGED <<inp, pc, ids, gen>>

DoValidatePrefix ==
    /\ op = "none" /\ inp.fn = "validatePrefix"
    /\ Result("validatePrefix", inp.a, inp.k, NilID,
              validatePrefix(inp.a, inp.k = "true"), <<>>, NoSrc)

DoNew ==
    /\ op = "none" /\ inp.fn = "New"
    /\ LET r == New(inp.a, inp.now, inp.rnd)
       IN Result("New", inp.a, "", r.id, r.err, <<>>,
                 IF r.err = NoErr
                 THEN [prefix |-> inp.a, ts |-> inp.now, rnd |-> inp.rnd, id |-> r.id]
                 ELSE NoSrc)

DoString ==
    /\ Holding
    /\ LET r == String(ret)
       IN Result("String", ret, "", ret,
                 IF r.panic THEN PanicNoSeparator ELSE NoErr, r.text, src)

DoValue ==
    /\ Holding
    /\ LET r == Value(ret)
       IN Result("Value", ret, "", ret, r.err, r.v, src)

DoParse(text) ==
    /\ Given("Parse", "String", text)
    /\ LET r == Parse(text)
       IN Result("Parse", text, "", r.id, r.err, <<>>, src)

DoFromBytes(raw) ==
    /\ Given("FromBytes", "Value", raw)
    /\ LET r == FromBytes(raw)
       IN Result("FromBytes", raw, "", r.id, r.err, <<>>, src)

\* var id ID; err := id.UnmarshalBinary(b)
DoUnmarshalBinary(b) ==
    /\ Given("UnmarshalBinary", "Value", b)
    /\ LET r == UnmarshalBinary(NilID, b)
       IN Result("UnmarshalBinary", b, "", r.id, r.err, <<>>, src)

\* var id ID; err := id.UnmarshalText(b)
DoUnmarshalText(b) ==
    /\ Given("UnmarshalText", "String", b)
    /\ LET r == UnmarshalText(NilID, b)
       IN Result("UnmarshalText", b, "", r.id, r.err, <<>>, src)

\* var id ID; err := id.Scan(v), v of dynamic type k
DoScan(k, v) ==
    /\ \/ op = "none" /\ inp.fn = "Scan" /\ k = inp.k /\ v = inp.a
       \/ Returned("Value") /\ v = out /\ k = "[]byte"
       \/ Returned("String") /\ v = out /\ k = "string"
    /\ LET r == Scan(NilID, k, v)
       IN Result("Scan", v, k, r.id, r.err, <<>>, src)

Next ==
    \/ DoValidatePrefix
    \/ DoNew
    \/ DoString
    \/ DoValue
    \/ \E text \in {inp.a, out} : DoParse(text)
    \/ \E raw \in {inp.a, out} : DoFromBytes(raw)
    \/ \E b \in {inp.a, out} : DoUnmarshalBinary(b)
    \/ \E b \in {inp.a, out} : DoUnmarshalText(b)
    \/ \E k \in ScanKinds : \E v \in {inp.a, out} : DoScan(k, v)

Spec == Init /\ [][Next]_vars

(* ------------------------------------------------------------------ *)
(* example/main.go: exampleTwo                                         *)
(* ------------------------------------------------------------------ *)

\* a < b as numbers, for two uint64 given by their 8 bytes: compared by the
\* three limbs of 16, 24 and 24 bits
Limb(ts, from, to) ==
    IF from = to THEN ts[from]
    ELSE IF from + 1 = to THEN ts[from] * 256 + ts[to]
    ELSE ts[from] * 65536 + ts[from + 1] * 256 + ts[to]

TickLess(a, b) ==
    \/ Limb(a, 1, 2) < Limb(b, 1, 2)
    \/ Limb(a, 1, 2) = Limb(b, 1, 2) /\ Limb(a, 3, 5) < Limb(b, 3, 5)
    \/ Limb(a, 1, 2) = Limb(b, 1, 2) /\ Limb(a, 3, 5) = Limb(b, 3, 5)
       /\ Limb(a, 6, 8) < Limb(b, 6, 8)

\* sort.Strings
RECURSIVE Insert(_, _)
Insert(sorted, x) ==
    IF sorted = <<>> THEN <<x>>
    ELSE IF BytesLess(x, Head(sorted)) THEN <<x>> \o sorted
    ELSE <<Head(sorted)>> \o Insert(Tail(sorted), x)

RECURSIVE SortStrings(_)
SortStrings(strs) ==
    IF strs = <<>> THEN <<>>
    ELSE Insert(SortStrings(SubSeq(strs, 1, Len(strs) - 1)), strs[Len(strs)])

\* the prefix exampleTwo generates with ("acc"); the unprefixed form runs the same loop
ExamplePrefixes == {<<>>, <<97, 99, 99>>}

InitExample ==
    /\ inp \in {Call("exampleTwo", p, "", <<>>, <<>>) : p \in ExamplePrefixes}
    /\ Idle
    /\ pc = "loop" /\ ids = <<>> /\ gen = <<>>

\* the wall clock does not run backwards between two iterations
ClockAt(now) == IF gen = <<>> THEN TRUE ELSE ~TickLess(now, gen[Len(gen)].ts)

\* one iteration: GenerateWithPrefix, Parse, String, append (MaxIter stands for 100)
Loop(now, rnd) ==
    /\ pc = "loop" /\ Len(ids) < MaxIter
    /\ ClockAt(now)
    /\ LET g == GenerateWithPrefix(inp.a, now, rnd)
           p == Parse(g.text)
           t == String(p.id)
       IN IF g.panic \/ p.err # NoErr \/ t.panic
          THEN pc' = "panic" /\ UNCHANGED <<ids, gen>>
          ELSE /\ ids' = Append(ids, t.text)
               /\ gen' = Append(gen, [ts |-> now, raw |-> g.id])
               /\ pc' = "loop"
    /\ UNCHANGED <<inp, op, arg, kind, ret, err, out, src>>

\* sort.Strings(idsToBeSorted), then the element-wise comparison with ids
Compare ==
    /\ pc = "loop" /\ Len(ids) = MaxIter
    /\ LET idsToBeSorted == SortStrings(ids)
       IN pc' = IF \E i \in 1..Len(ids) : ids[i] # idsToBeSorted[i]
                THEN "panic" ELSE "done"
    /\ UNCHANGED <<inp, op, arg, kind, ret, err, out, src, ids, gen>>

NextExample ==
    \/ \E now \in TickVals, rnd \in RndVals : Loop(now, rnd)
    \/ Compare

SpecExample == InitExample /\ [][NextExample]_vars

(* ------------------------------------------------------------------ *)
(* Properties                                                          *)
(* ------------------------------------------------------------------ *)
IsWhitespace(c) == c \in {9, 10, 11, 12, 13, 32}
HasWhitespace(s) == \E i \in 1..Len(s) : IsWhitespace(s[i])
AllInAlphabet(s) == \A i \in 1..Len(s) : InAlphabet(s[i])

\* ret is the identifier a call of New built, and nothing else was done to it
BuiltByNew == src # NoSrc /\ src.id # NilID

\* C1: Parse of the text of an identifier New built returns no error and an
\* identifier with the same raw bytes.
C1_TextRoundTrip ==
    (op = "Parse" /\ BuiltByNew /\ arg = String(src.id).text)
        => (err = NoErr /\ ret = src.id)

\* C2: identifiers generated one after another with the same prefix at strictly
\* increasing tick counts below 2^56 have texts in ascending lexical order.
C2_TextSorted ==
    \A i \in 1..Len(gen) : \A j \in 1..Len(gen) :
        (i < j /\ TickLess(gen[i].ts, gen[j].ts)
               /\ gen[i].ts[1] = 0 /\ gen[j].ts[1] = 0)
            => BytesLess(ids[i], ids[j])

\* C3: the text of an identifier New built has 25 characters without a prefix
\* and 29 with one, and its payload part always has 25.
C3_FixedTextLength ==
    (op = "String" /\ BuiltByNew /\ arg = src.id)
        => /\ err = NoErr
           /\ Len(out) = IF src.prefix = <<>> THEN stringEncodedLen
                         ELSE stringEncodedLenWithPrefix
           /\ Len(EncodeAlphabet(SubSeq(src.id, Len(src.id) - byteLength + 1, Len(src.id))))
                = stringEncodedLen

\* C4: validatePrefix fails exactly when the string (less one trailing '-' when
\* the separator is allowed) holds a '-', holds a whitespace character, or has a
\* length other than 0 and 3; New fails with that error and nil exactly then.
C4_PrefixValidation ==
    /\ op = "validatePrefix" =>
         LET s == IF kind = "false" THEN TrimSuffix(arg, separator) ELSE arg
         IN (err # NoErr) <=>
               (Contains(s, separator) \/ HasWhitespace(s)
                  \/ (Len(s) # 0 /\ Len(s) # prefixAllowedLen))
    /\ op = "New" =>
         IF Contains(arg, separator) \/ HasWhitespace(arg)
               \/ (Len(arg) # 0 /\ Len(arg) # prefixAllowedLen)
         THEN err # NoErr /\ ret = NilID
         ELSE err = NoErr /\ ret # NilID

\* C5: Parse of a text without '-' fails with the string size error when it is
\* shorter than 25 characters, and succeeds when it has exactly 25 characters
\* of the alphabet.
C5_ParseTextBoundaries ==
    (op = "Parse" /\ ~Contains(arg, separator))
        => /\ Len(arg) < stringEncodedLen => (err = errStringSizeMismatch /\ ret = NilID)
           /\ (Len(arg) = stringEncodedLen /\ AllInAlphabet(arg))
                 => (err = NoErr /\ ret # NilID)

\* C6: FromBytes fails with the bytes size error and nil exactly when the input
\* is shorter than 19 bytes; otherwise it returns the whole input, byte for byte.
C6_FromBytesBoundary ==
    op = "FromBytes"
        => /\ (err = errBytesSizeMismatch /\ ret = NilID) <=> (Len(arg) < byteLength)
           /\ Len(arg) >= byteLength => (err = NoErr /\ ret = arg)

C6_Witness ==
    /\ op = "FromBytes" /\ Len(arg) > byteLength
    /\ err = NoErr /\ ret = arg

\* C7: Scan of the driver value and Scan of the text of an identifier New built
\* both succeed and leave the receiver equal to that identifier.
C7_ScanRoundTrip ==
    (op = "Scan" /\ BuiltByNew
       /\ \/ kind = "[]byte" /\ arg = Value(src.id).v
          \/ kind = "string" /\ arg = String(src.id).text)
        => (err = NoErr /\ ret = src.id)

\* C8: an identifier returned without error by New, Parse or FromBytes has 19
\* bytes, or 23 bytes: 3 prefix characters free of '-' and whitespace, a '-',
\* and a 19-byte payload.
WellShaped(t) ==
    \/ Len(t) = byteLength
    \/ /\ Len(t) = prefixAllowedLen + 1 + byteLength
       /\ t[prefixAllowedLen + 1] = separator
       /\ \A i \in 1..prefixAllowedLen : t[i] # separator /\ ~IsWhitespace(t[i])

C8_IdentifierShape ==
    (op \in {"New", "Parse", "FromBytes"} /\ err = NoErr) => WellShaped(ret)

\* C9: the payload of an identifier New built starts with the 7 bytes of the
\* tick count mod 2^56, most significant first; so with the same prefix and tick
\* counts ts1 < ts2 below 2^56 the raw bytes of the first are less than those of
\* the second, whatever the random bytes.
C9_RawTimeOrder ==
    /\ \A i \in 1..Len(gen) : \A k \in 1..timeBytesLen :
          gen[i].raw[Len(gen[i].raw) - byteLength + k] = gen[i].ts[k + 1]
    /\ \A i \in 1..Len(gen) : \A j \in 1..Len(gen) :
          (i < j /\ TickLess(gen[i].ts, gen[j].ts)
                 /\ gen[i].ts[1] = 0 /\ gen[j].ts[1] = 0)
              => BytesLess(gen[i].raw, gen[j].raw)

\* two identifiers at increasing ticks, the first with the largest random bytes
\* and the second with the smallest
C9_Witness ==
    /\ Len(gen) >= 2
    /\ TickLess(gen[1].ts, gen[2].ts) /\ gen[1].ts[1] = 0 /\ gen[2].ts[1] = 0
    /\ gen[1].raw[Len(gen[1].raw)] = 255 /\ gen[2].raw[Len(gen[2].raw)] = 0
    /\ BytesLess(gen[1].raw, gen[2].raw)

\* C10: String never panics on an identifier that New, Parse, FromBytes,
\* UnmarshalBinary, UnmarshalText or Scan returned without error.
C10_StringNeverPanics ==
    op = "String" => err # PanicNoSeparator

====
